---- MODULE Spec2Model ----
(***************************************************************************)
(* Garuda360: the request handlers of app/routes.py over the tables of     *)
(* app/models.py, with the maintenance forecast (predict_next_service) and *)
(* the usage summary (the two aggregate queries of vehicle_detail).        *)
(*                                                                         *)
(* Dates are day numbers (date + timedelta(days=n) is day + n).  Money and *)
(* litres are whole numbers of their smallest unit; a quotient is kept as  *)
(* a reduced fraction, so no rounding is modelled.  A SQL value that may   *)
(* be NULL, and a Python value that may be None, is a sequence: <<>> for   *)
(* NULL/None and <<x>> for the value x; so is a cell of the nullable       *)
(* column total_cost.                                                      *)
(***************************************************************************)
EXTENDS Integers, Sequences, FiniteSets, TLC

\* ------------------------------------------------------------------ bounds
MaxVehicles == 2
MaxService == 3
MaxFuel == 2
MaxOdometer == 1
MaxDate == 2
MaxLiters == 1
MaxCost == 1

\* ------------------------------------------------------- program constants
DaysPerMonth == 30

ADMIN_EMAIL == "admin@garuda360.com"

\* ------------------------------------------------------------------- state
VARIABLES
    user,               \* table user: rows [id, email, password_hash, name]
    owner_group,        \* table owner_group: rows [id, group_name]
    owner_group_user,   \* table owner_group_user: rows [id, group_id, user_id]
    vehicle,            \* table vehicle: rows [id, group_id, current_odometer]
    service_event,      \* table service_event
    fuel_entry,         \* table fuel_entry
    current_user,       \* the session's user id, 0 when anonymous
    today,              \* the wall clock's date (date.today())
    request_date,       \* the date on which the last request was served
    response            \* what the last request returned

vars == <<user, owner_group, owner_group_user, vehicle, service_event,
          fuel_entry, current_user, today, request_date, response>>

tables == <<user, owner_group, owner_group_user, vehicle, service_event,
            fuel_entry>>

\* ------------------------------------------------------------ Python / SQL
None == <<>>

Some(x) == <<x>>

\* x or d, for an integer x (never None here): 0 is falsy
PyOr(x, d) == IF x = 0 THEN d ELSE x

\* x or 0, for a column of a result row, which may be NULL
OrZero(x) == IF x = None THEN 0 ELSE PyOr(x[1], 0)

\* int(s or 0) / float(s or 0) of a form field: None is the empty field ""
FormNumber(s) == IF s = None THEN 0 ELSE s[1]

RECURSIVE SumSeq(_)
SumSeq(vals) == IF vals = <<>> THEN 0 ELSE Head(vals) + SumSeq(Tail(vals))

RECURSIVE MaxSeq(_)
MaxSeq(vals) ==
    IF Len(vals) = 1 THEN Head(vals)
    ELSE LET m == MaxSeq(Tail(vals))
         IN  IF Head(vals) > m THEN Head(vals) ELSE m

RECURSIVE MinSeq(_)
MinSeq(vals) ==
    IF Len(vals) = 1 THEN Head(vals)
    ELSE LET m == MinSeq(Tail(vals))
         IN  IF Head(vals) < m THEN Head(vals) ELSE m

\* the aggregates of SQL: NULL over no rows
SqlSum(vals) == IF vals = <<>> THEN None ELSE Some(SumSeq(vals))

\* a variant: the odometer of the last row instead of the greatest
SqlMax_last(vals) == IF vals = <<>> THEN None ELSE Some(vals[Len(vals)])

SqlMax(vals) == IF vals = <<>> THEN None ELSE Some(MaxSeq(vals))

\* a variant: the distance counted from 0 instead of the least odometer
SqlMin_zero(vals) == IF vals = <<>> THEN None ELSE Some(0)

SqlMin(vals) == IF vals = <<>> THEN None ELSE Some(MinSeq(vals))

Coalesce(x, d) == IF x = None THEN Some(d) ELSE x

Abs(n) == IF n < 0 THEN -n ELSE n

RECURSIVE Gcd(_, _)
Gcd(a, b) == IF b = 0 THEN a ELSE Gcd(b, a % b)

\* n * 1.0 / d, d > 0, as a fraction in lowest terms
Quotient(n, d) ==
    LET g == Gcd(Abs(n), d)
    IN  [num |-> n \div g, den |-> d \div g]

\* a variant: the WHERE clause left out
WhereVehicle_all(table, vid) == table

\* SELECT ... FROM table WHERE vehicle_id = :vid
WhereVehicle(table, vid) == SelectSeq(table, LAMBDA r : r.vehicle_id = vid)

Column(rows, name) == [i \in 1..Len(rows) |-> rows[i][name]]

\* an aggregate over a nullable column passes over the NULL cells: the values
\* of the cells that hold one
RECURSIVE NonNull(_)
NonNull(cells) ==
    IF cells = <<>> THEN <<>>
    ELSE IF Head(cells) = None THEN NonNull(Tail(cells))
    ELSE <<Head(cells)[1]>> \o NonNull(Tail(cells))

\* a variant: COUNT(total_cost), which passes over the rows without a cost
SqlCount_cost(rows) == Len(NonNull(Column(rows, "total_cost")))

\* COUNT(*)
SqlCount(rows) == Len(rows)


\* ----------------------------------------------------------------- queries
\* User.query.get(current_user.id): the row of the logged-in user
CurrentUserRow == user[current_user]

\* a variant: Vehicle.query for every user
vehicle_query_all == {v \in DOMAIN vehicle : TRUE}

\* Vehicle.query, or Vehicle joined with owner_group and owner_group_user and
\* filtered by the current user: the ids of the vehicles the query yields
vehicle_query_for_current_user ==
    IF current_user # 0 /\ CurrentUserRow.email = ADMIN_EMAIL
    THEN {v \in DOMAIN vehicle : TRUE}
    ELSE {v \in DOMAIN vehicle :
            \E g \in DOMAIN owner_group, l \in DOMAIN owner_group_user :
                /\ vehicle[v].group_id = owner_group[g].id
                /\ owner_group[g].id = owner_group_user[l].group_id
                /\ owner_group_user[l].user_id = current_user}

\* .filter(Vehicle.id == vehicle_id).first_or_404(): None stands for the 404
get_vehicle_for_current_user(vehicle_id) ==
    IF \E v \in vehicle_query_for_current_user : vehicle[v].id = vehicle_id
    THEN Some(vehicle[CHOOSE v \in vehicle_query_for_current_user :
                          vehicle[v].id = vehicle_id])
    ELSE None

\* ServiceEvent.query.filter_by(vehicle_id=, service_type=)
MatchingEvents(table, vid, service_type) ==
    {i \in DOMAIN table :
        table[i].vehicle_id = vid /\ table[i].service_type = service_type}

\* a variant: ascending order, the earliest matching row
LastEventChoices_asc(table, vid, service_type) ==
    LET m == MatchingEvents(table, vid, service_type)
    IN  IF m = {} THEN {None}
        ELSE {Some(table[i]) : i \in
                {i \in m : \A j \in m :
                    table[j].service_date >= table[i].service_date}}

\* a variant: no order_by, any matching row
LastEventChoices_unordered(table, vid, service_type) ==
    LET m == MatchingEvents(table, vid, service_type)
    IN  IF m = {} THEN {None} ELSE {Some(table[i]) : i \in m}

\* .order_by(ServiceEvent.service_date.desc()).first(): None without a match;
\* with several rows on the latest date SQL leaves the row it returns open,
\* so every such row is a possible outcome
LastEventChoices(table, vid, service_type) ==
    LET m == MatchingEvents(table, vid, service_type)
    IN  IF m = {} THEN {None}
        ELSE {Some(table[i]) : i \in
                {i \in m : \A j \in m :
                    table[j].service_date <= table[i].service_date}}

\* ------------------------------------------------------------ the forecast
\* last_date: a date object is always truthy, so `or date.today()` never
\* applies to a row's service_date
LastDate(last_event, now) ==
    IF last_event # None THEN last_event[1].service_date ELSE now

\* a variant: without history the odometer starts from 0
LastOdo_zero(veh, last_event) ==
    IF last_event # None
    THEN PyOr(last_event[1].odometer_at_service, veh.current_odometer)
    ELSE 0

LastOdo(veh, last_event) ==
    IF last_event # None
    THEN PyOr(last_event[1].odometer_at_service, veh.current_odometer)
    ELSE veh.current_odometer

\* a variant: months of 31 days
NextDate_31(last_date, months_interval) == last_date + months_interval * 31

NextDate(last_date, months_interval) ==
    last_date + months_interval * DaysPerMonth

\* a variant: the next odometer rounded down to a multiple of the interval
NextOdo_rounded(last_odo, km_interval) ==
    ((last_odo + km_interval) \div km_interval) * km_interval

NextOdo(last_odo, km_interval) == last_odo + km_interval

\* predict_next_service, given the row its query returned and date.today()
predict_next_service(veh, service_type, km_interval, months_interval, last_event, now) ==
    LET last_date == LastDate(last_event, now)
        last_odo  == LastOdo(veh, last_event)
    IN  [service_type |-> service_type,
         last_date    |-> last_date,
         last_odo     |-> last_odo,
         next_date    |-> NextDate(last_date, months_interval),
         next_odo     |-> NextOdo(last_odo, km_interval)]

rules == << <<"Oil Change", 5000, 6>>,
            <<"Brake Pads", 30000, 24>>,
            <<"Wipers", 20000, 18>> >>

\* the rows the queries of a batch over rule list rl may return, one per rule
BatchEventChoices(table, vid, rl) ==
    {ev \in [1..Len(rl) -> {None} \cup {Some(table[i]) : i \in DOMAIN table}] :
        \A k \in 1..Len(rl) : ev[k] \in LastEventChoices(table, vid, rl[k][1])}

\* a variant: the prediction put in front
AppendPrediction_front(predictions, pred) == <<pred>> \o predictions

\* predictions.append(pred)
AppendPrediction(predictions, pred) == Append(predictions, pred)

\* for service_type, km_int, months_int in rules: ... predictions.append(pred)
RECURSIVE ForRules(_, _, _, _, _)
ForRules(veh, rl, events, now, predictions) ==
    IF rl = <<>> THEN predictions
    ELSE ForRules(veh, Tail(rl), Tail(events), now,
            AppendPrediction(predictions,
                predict_next_service(veh, Head(rl)[1], Head(rl)[2], Head(rl)[3],
                                     Head(events), now)))

\* ------------------------------------------------------------- the summary
\* sql_service_summary
service_summary(table, vid) ==
    LET rows == WhereVehicle(table, vid)
    IN  [service_count |-> SqlCount(rows),
         total_expense |->
            Coalesce(SqlSum(NonNull(Column(rows, "total_cost"))), 0)]

\* CASE WHEN SUM(liters) > 0 THEN (MAX(odometer) - MIN(odometer)) * 1.0
\*      / SUM(liters) ELSE NULL END; NULL > 0 is not true
KmPerLiter(rows) ==
    LET liters == SqlSum(Column(rows, "liters"))
    IN  IF liters # None /\ liters[1] > 0
        THEN Some(Quotient(SqlMax(Column(rows, "odometer"))[1]
                             - SqlMin(Column(rows, "odometer"))[1],
                           liters[1]))
        ELSE None

\* sql_fuel_summary
fuel_summary(table, vid) ==
    LET rows == WhereVehicle(table, vid)
    IN  [total_fuel_cost |->
            Coalesce(SqlSum(NonNull(Column(rows, "total_cost"))), 0),
         total_liters    |-> Coalesce(SqlSum(Column(rows, "liters")), 0),
         km_per_liter    |-> KmPerLiter(rows)]

\* --------------------------------------------------------------- responses
Redirect(endpoint) == [status |-> 302, location |-> endpoint]

Render(template) == [status |-> 200, template |-> template]

NotFound == [status |-> 404]

\* @login_required turns an anonymous request away
LoginRequired == [status |-> 401]

\* render_template("vehicle_detail.html", ...)
DetailPage(veh, events, now) ==
    LET svc  == service_summary(service_event, veh.id)
        fuel == fuel_summary(fuel_entry, veh.id)
    IN  [status                |-> 200,
         template              |-> "vehicle_detail.html",
         vehicle               |-> veh,
         service_count         |-> PyOr(svc.service_count, 0),
         total_service_expense |-> OrZero(svc.total_expense),
         total_fuel_cost       |-> OrZero(fuel.total_fuel_cost),
         total_liters          |-> OrZero(fuel.total_liters),
         km_per_liter          |-> fuel.km_per_liter,
         service_predictions   |-> ForRules(veh, rules, events, now, <<>>)]


\* ---------------------------------------------------------------- handlers
Init ==
    /\ user = <<>>
    /\ owner_group = <<>>
    /\ owner_group_user = <<>>
    /\ vehicle = <<>>
    /\ service_event = <<>>
    /\ fuel_entry = <<>>
    /\ current_user = 0
    /\ today = 1
    /\ request_date = 1
    /\ response = [status |-> 0]

\* generate_password_hash / check_password_hash
generate_password_hash(password) == <<"hash", password>>

\* a request that changes no table and no session
Reply(r) ==
    /\ response' = r
    /\ request_date' = today
    /\ UNCHANGED <<tables, current_user, today>>

\* /register; the form's email arrives stripped and in lower case
register(method, name, email, password) ==
    IF current_user # 0 THEN Reply(Redirect("main.list_vehicles"))
    ELSE IF method # "POST" THEN Reply(Render("register.html"))
    ELSE IF \E u \in DOMAIN user : user[u].email = email
    THEN Reply([status |-> 200, template |-> "register.html",
                error |-> "Email is already registered."])
    ELSE LET uid == Len(user) + 1
             gid == Len(owner_group) + 1
         IN  /\ user' = Append(user,
                    [id |-> uid, email |-> email, name |-> name,
                     password_hash |-> generate_password_hash(password)])
             /\ owner_group' = Append(owner_group,
                    [id |-> gid, group_name |-> <<name, "'s Garage">>])
             /\ owner_group_user' = Append(owner_group_user,
                    [id |-> Len(owner_group_user) + 1,
                     group_id |-> gid, user_id |-> uid])
             /\ current_user' = uid
             /\ response' = Redirect("main.list_vehicles")
             /\ request_date' = today
             /\ UNCHANGED <<vehicle, service_event, fuel_entry, today>>

\* OwnerGroupUser.query.filter_by(user_id=current_user.id).first()
UserLinks == {l \in DOMAIN owner_group_user :
                owner_group_user[l].user_id = current_user}

\* /vehicles/new: the user's group is found or created on every request,
\* the vehicle is added on POST
add_vehicle(method, odo_val) ==
    IF current_user = 0 THEN Reply(LoginRequired)
    ELSE
      LET fresh == UserLinks = {}
          gid   == IF fresh THEN Len(owner_group) + 1
                   ELSE owner_group_user[
                          CHOOSE l \in UserLinks :
                              \A k \in UserLinks : l <= k].group_id
      IN  /\ owner_group' =
                IF fresh
                THEN Append(owner_group,
                       [id |-> gid,
                        group_name |-> <<CurrentUserRow.name, "'s Garage">>])
                ELSE owner_group
          /\ owner_group_user' =
                IF fresh
                THEN Append(owner_group_user,
                       [id |-> Len(owner_group_user) + 1,
                        group_id |-> gid, user_id |-> current_user])
                ELSE owner_group_user
          /\ IF method = "POST"
             THEN /\ Len(vehicle) < MaxVehicles
                  /\ vehicle' = Append(vehicle,
                        [id |-> Len(vehicle) + 1, group_id |-> gid,
                         current_odometer |-> FormNumber(odo_val)])
                  /\ response' = Redirect("main.list_vehicles")
             ELSE /\ vehicle' = vehicle
                  /\ response' = Render("add_vehicle.html")
          /\ request_date' = today
          /\ UNCHANGED <<user, service_event, fuel_entry, current_user, today>>

\* /vehicles/<id>/edit
edit_vehicle(vehicle_id, method, odo_val) ==
    IF current_user = 0 THEN Reply(LoginRequired)
    ELSE LET found == get_vehicle_for_current_user(vehicle_id)
         IN  IF found = None THEN Reply(NotFound)
             ELSE IF method # "POST" THEN Reply(Render("edit_vehicle.html"))
             ELSE /\ vehicle' = [vehicle EXCEPT
                        ![vehicle_id].current_odometer = odo_val]
                  /\ response' = Redirect("main.list_vehicles")
                  /\ request_date' = today
                  /\ UNCHANGED <<user, owner_group, owner_group_user,
                                 service_event, fuel_entry, current_user, today>>

\* /vehicles/<id>/services/new
add_service(vehicle_id, method, service_date, odo_field, service_type, cost_field) ==
    IF current_user = 0 THEN Reply(LoginRequired)
    ELSE LET found == get_vehicle_for_current_user(vehicle_id)
         IN  IF found = None THEN Reply(NotFound)
             ELSE IF method # "POST" THEN Reply(Render("add_service.html"))
             ELSE /\ Len(service_event) < MaxService
                  /\ service_event' = Append(service_event,
                        [id |-> Len(service_event) + 1,
                         vehicle_id |-> found[1].id,
                         service_date |-> service_date,
                         odometer_at_service |-> FormNumber(odo_field),
                         service_type |-> service_type,
                         total_cost |-> Some(FormNumber(cost_field))])
                  /\ response' = Redirect("main.list_services")
                  /\ request_date' = today
                  /\ UNCHANGED <<user, owner_group, owner_group_user, vehicle,
                                 fuel_entry, current_user, today>>

\* /vehicles/<id>/fuel/new
add_fuel(vehicle_id, method, odometer_field, liters_field, price_field, total_cost_val) ==
    IF current_user = 0 THEN Reply(LoginRequired)
    ELSE LET found == get_vehicle_for_current_user(vehicle_id)
             liters == FormNumber(liters_field)
             price  == FormNumber(price_field)
         IN  IF found = None THEN Reply(NotFound)
             ELSE IF method # "POST" THEN Reply(Render("add_fuel.html"))
             ELSE /\ Len(fuel_entry) < MaxFuel
                  /\ fuel_entry' = Append(fuel_entry,
                        [id |-> Len(fuel_entry) + 1,
                         vehicle_id |-> found[1].id,
                         odometer |-> FormNumber(odometer_field),
                         liters |-> liters,
                         total_cost |-> IF total_cost_val # None
                                        THEN Some(total_cost_val[1])
                                        ELSE Some(liters * price)])
                  /\ response' = Redirect("main.list_fuel")
                  /\ request_date' = today
                  /\ UNCHANGED <<user, owner_group, owner_group_user, vehicle,
                                 service_event, current_user, today>>

\* a variant: the page also stores the first rule's anchor odometer as the
\* vehicle's current odometer
vehicle_detail_sync(vehicle_id) ==
    IF current_user = 0 THEN Reply(LoginRequired)
    ELSE LET found == get_vehicle_for_current_user(vehicle_id)
         IN  IF found = None THEN Reply(NotFound)
             ELSE \E events \in
                        BatchEventChoices(service_event, found[1].id, rules) :
                    LET page == DetailPage(found[1], events, today)
                    IN  /\ response' = page
                        /\ request_date' = today
                        /\ vehicle' = [vehicle EXCEPT
                              ![found[1].id].current_odometer =
                                  page.service_predictions[1].last_odo]
                        /\ UNCHANGED <<user, owner_group, owner_group_user,
                                       service_event, fuel_entry, current_user,
                                       today>>

\* /vehicles/<id>
vehicle_detail(vehicle_id) ==
    IF current_user = 0 THEN Reply(LoginRequired)
    ELSE LET found == get_vehicle_for_current_user(vehicle_id)
         IN  IF found = None THEN Reply(NotFound)
             ELSE \E events \in
                        BatchEventChoices(service_event, found[1].id, rules) :
                      Reply(DetailPage(found[1], events, today))

check_password_hash(pwhash, password) ==
    pwhash = generate_password_hash(password)

\* /login; User.query.filter_by(email=email).first()
login(method, email, password) ==
    IF current_user # 0 THEN Reply(Redirect("main.list_vehicles"))
    ELSE IF method # "POST" THEN Reply(Render("login.html"))
    ELSE LET rows == {u \in DOMAIN user : user[u].email = email}
             u    == CHOOSE x \in rows : \A y \in rows : x <= y
         IN  IF rows # {} /\ check_password_hash(user[u].password_hash, password)
             THEN /\ current_user' = u
                  /\ response' = Redirect("main.list_vehicles")
                  /\ request_date' = today
                  /\ UNCHANGED <<tables, today>>
             ELSE Reply([status |-> 200, template |-> "login.html",
                         error |-> "Invalid email or password."])

\* /logout
logout ==
    IF current_user = 0 THEN Reply(LoginRequired)
    ELSE /\ current_user' = 0
         /\ response' = Redirect("main.index")
         /\ request_date' = today
         /\ UNCHANGED <<tables, today>>

\* /create-admin-user: open to anyone; the admin gets no owner group
create_admin_user ==
    IF \E u \in DOMAIN user : user[u].email = ADMIN_EMAIL
    THEN Reply([status |-> 200, body |-> "Admin already exists."])
    ELSE /\ user' = Append(user,
                [id |-> Len(user) + 1, email |-> ADMIN_EMAIL, name |-> "Admin",
                 password_hash |-> generate_password_hash("Admin123!")])
         /\ response' = [status |-> 200, body |-> "Admin user created."]
         /\ request_date' = today
         /\ UNCHANGED <<owner_group, owner_group_user, vehicle, service_event,
                        fuel_entry, current_user, today>>

\* midnight
Tick ==
    /\ today < MaxDate
    /\ today' = today + 1
    /\ UNCHANGED <<tables, current_user, request_date, response>>

\* what a direct call of predict_next_service returns: the function has no
\* raise and no check of its arguments, so every call returns a prediction
Returned(rule, value) ==
    [status |-> 0, call |-> "predict_next_service", rule |-> rule,
     value |-> Some(value)]

\* predict_next_service(vehicle, service_type, km_interval, months_interval)
\* called for a stored vehicle with a rule of the caller's choosing
predict_call(v, rule) ==
    /\ v \in DOMAIN vehicle
    /\ \E e \in LastEventChoices(service_event, vehicle[v].id, rule[1]) :
          Reply(Returned(rule,
                  predict_next_service(vehicle[v], rule[1], rule[2], rule[3],
                                       e, today)))

\* ---------------------------------------------------------- specifications
VehicleIds == 1..MaxVehicles

Odometers == 0..MaxOdometer

\* a numeric form field: left empty, or a number of S
Field(S) == {None} \cup {Some(n) : n \in S}

Dates == 1..MaxDate

Register == register("POST", "Asha", "asha@example.com", "secret")

AddVehicle == \E odo \in Field(1..MaxOdometer) : add_vehicle("POST", odo)

EditVehicle ==
    \E v \in VehicleIds, odo \in Odometers : edit_vehicle(v, "POST", odo)

VehicleDetail == \E v \in VehicleIds : vehicle_detail(v)

\* the forecast: the service history varies in vehicle, date, odometer, type
ForecastAddService ==
    \E v \in VehicleIds, d \in Dates, odo \in Field(1..MaxOdometer),
       t \in {"Oil Change", "Brake Pads"} :
        add_service(v, "POST", d, odo, t, None)

NextForecast ==
    \/ Register
    \/ AddVehicle
    \/ EditVehicle
    \/ ForecastAddService
    \/ VehicleDetail
    \/ Tick

SpecForecast == Init /\ [][NextForecast]_vars

\* the summary: fuel and service records vary in vehicle, odometer, litres, cost
SummaryAddVehicle == add_vehicle("POST", None)

SummaryAddService ==
    \E v \in VehicleIds, c \in Field(1..MaxCost) :
        add_service(v, "POST", 1, Some(1), "Oil Change", c)

SummaryAddFuel ==
    \E v \in VehicleIds, odo \in Field(1..MaxOdometer),
       l \in Field(1..MaxLiters), c \in Field(0..MaxCost) :
        add_fuel(v, "POST", odo, l, Some(1), c)

NextSummary ==
    \/ Register
    \/ SummaryAddVehicle
    \/ SummaryAddService
    \/ SummaryAddFuel
    \/ VehicleDetail

SpecSummary == Init /\ [][NextSummary]_vars


\* ------------------------------------------------------------------ claims
\* the last response is the page of vehicle_detail; every request that writes
\* a table replaces the response, so the page was computed from the tables
\* as they are
DetailOf(r) ==
    /\ r.status = 200
    /\ "template" \in DOMAIN r
    /\ r.template = "vehicle_detail.html"

IsDetail == DetailOf(response)

\* the service records of the page's vehicle whose type is that of rule k
HistoryOf(k) ==
    {i \in DOMAIN service_event :
        /\ service_event[i].vehicle_id = response.vehicle.id
        /\ service_event[i].service_type = rules[k][1]}

\* those of them with the latest service date
LatestOf(k) ==
    {i \in HistoryOf(k) : \A j \in HistoryOf(k) :
        service_event[j].service_date <= service_event[i].service_date}

\* the table without the records of other vehicles and of other types
OnlyHistoryOf(k) ==
    SelectSeq(service_event, LAMBDA r :
        r.vehicle_id = response.vehicle.id /\ r.service_type = rules[k][1])

\* what predict_next_service may return for rule k alone over a table
PredictAlone(table, k) ==
    {predict_next_service(response.vehicle, rules[k][1], rules[k][2],
                          rules[k][3], e, request_date) :
        e \in LastEventChoices(table, response.vehicle.id, rules[k][1])}

\* C1: with matching history the anchor date is the maximum service date of
\* the matching records, and the result is one that the matching records of
\* this vehicle alone produce: records of other types or vehicles play no part
C1_AnchorIsLatestMatch ==
    IsDetail =>
        \A k \in 1..Len(rules) :
            HistoryOf(k) # {} =>
                /\ \E i \in HistoryOf(k) :
                      /\ response.service_predictions[k].last_date
                            = service_event[i].service_date
                      /\ \A j \in HistoryOf(k) :
                            service_event[j].service_date
                                <= service_event[i].service_date
                /\ response.service_predictions[k]
                      \in PredictAlone(OnlyHistoryOf(k), k)

\* two matching records of different dates, the later one stored first, and a
\* record of another vehicle or type, with another odometer, dated no earlier
C1_Witness ==
    /\ IsDetail
    /\ \E k \in 1..Len(rules) :
        \E i, j \in HistoryOf(k), o \in DOMAIN service_event \ HistoryOf(k) :
            /\ i < j
            /\ service_event[i].service_date > service_event[j].service_date
            /\ service_event[o].service_date >= service_event[i].service_date
            /\ service_event[o].odometer_at_service
                  # service_event[i].odometer_at_service
            /\ service_event[i].odometer_at_service # 0
            /\ response.service_predictions[k].last_date
                  = service_event[i].service_date
            /\ response.service_predictions[k].last_odo
                  = service_event[i].odometer_at_service

\* C2: without matching history the anchor is the date of the call and the
\* vehicle's current odometer, and the next values are the anchor plus the
\* rule's intervals
C2_NoHistoryStartsFromNow ==
    IsDetail =>
        \A k \in 1..Len(rules) :
            HistoryOf(k) = {} =>
                /\ response.service_predictions[k].last_date = request_date
                /\ response.service_predictions[k].last_odo
                      = vehicle[response.vehicle.id].current_odometer
                /\ response.service_predictions[k].next_date
                      = request_date + 30 * rules[k][3]
                /\ response.service_predictions[k].next_odo
                      = vehicle[response.vehicle.id].current_odometer
                          + rules[k][2]

\* a vehicle that has records, none of them of the rule's type, asked on the
\* second day with a non-zero odometer
C2_Witness ==
    /\ IsDetail
    /\ request_date = 2
    /\ response.vehicle.current_odometer > 0
    /\ \E k \in 1..Len(rules) :
        /\ HistoryOf(k) = {}
        /\ \E i \in DOMAIN service_event :
              /\ service_event[i].vehicle_id = response.vehicle.id
              /\ service_event[i].odometer_at_service
                    # response.vehicle.current_odometer
        /\ response.service_predictions[k].last_date = 2

\* C3: with matching history the anchor odometer is the odometer recorded on
\* a latest matching record, whatever the vehicle's current odometer
C3_AnchorOdometerIsRecorded ==
    IsDetail =>
        \A k \in 1..Len(rules) :
            HistoryOf(k) # {} =>
                \E i \in LatestOf(k) :
                    response.service_predictions[k].last_odo
                        = service_event[i].odometer_at_service

\* C4: the next date is the anchor date plus 30 days per month of the rule
C4_ThirtyDayMonths ==
    IsDetail =>
        \A k \in 1..Len(rules) :
            response.service_predictions[k].next_date
                - response.service_predictions[k].last_date
              = 30 * rules[k][3]

\* one page with an anchor taken from a record and an anchor taken from today
C4_Witness ==
    /\ IsDetail
    /\ \E k, n \in 1..Len(rules) :
        /\ HistoryOf(k) # {}
        /\ HistoryOf(n) = {}
        /\ response.service_predictions[k].last_date # request_date
        /\ response.service_predictions[k].next_date
              = response.service_predictions[k].last_date + 30 * rules[k][3]
        /\ response.service_predictions[n].next_date
              = request_date + 30 * rules[n][3]

\* C5: the next odometer is the returned anchor odometer plus the rule's
\* distance interval
C5_NextOdometerIsSum ==
    IsDetail =>
        \A k \in 1..Len(rules) :
            response.service_predictions[k].next_odo
              = response.service_predictions[k].last_odo + rules[k][2]

\* an anchor odometer that is no multiple of the interval, from a record
C5_Witness ==
    /\ IsDetail
    /\ \E k \in 1..Len(rules) :
        /\ HistoryOf(k) # {}
        /\ response.service_predictions[k].last_odo % rules[k][2] # 0
        /\ response.service_predictions[k].next_odo
              = response.service_predictions[k].last_odo + rules[k][2]


\* the fuel and service records of the page's vehicle
FuelOf == {i \in DOMAIN fuel_entry :
              fuel_entry[i].vehicle_id = response.vehicle.id}

ServiceOf == {i \in DOMAIN service_event :
                 service_event[i].vehicle_id = response.vehicle.id}

RECURSIVE TotalLiters(_)
TotalLiters(F) ==
    IF F = {} THEN 0
    ELSE LET i == CHOOSE x \in F : TRUE
         IN  fuel_entry[i].liters + TotalLiters(F \ {i})

\* the fuel history of the spec's example
ExampleFuel ==
    << [id |-> 1, vehicle_id |-> 1, odometer |-> 1000, liters |-> 10,
        total_cost |-> Some(0)],
       [id |-> 2, vehicle_id |-> 1, odometer |-> 1400, liters |-> 10,
        total_cost |-> Some(0)] >>

\* C6: total_liters is the sum of litres over the vehicle's fuel records; when
\* it is > 0 the efficiency is (max odometer - min odometer) / that sum, and
\* otherwise it is NULL; records (1000, 10) and (1400, 10) give 20 and 20
C6_FuelEfficiency ==
    /\ IsDetail =>
        LET L == TotalLiters(FuelOf)
        IN  /\ response.total_liters = L
            /\ L > 0 =>
                /\ response.km_per_liter # None
                /\ response.km_per_liter[1].den > 0
                /\ \E hi, lo \in FuelOf :
                    /\ \A i \in FuelOf :
                          /\ fuel_entry[i].odometer <= fuel_entry[hi].odometer
                          /\ fuel_entry[i].odometer >= fuel_entry[lo].odometer
                    /\ response.km_per_liter[1].num * L
                          = (fuel_entry[hi].odometer - fuel_entry[lo].odometer)
                              * response.km_per_liter[1].den
            /\ ~(L > 0) => response.km_per_liter = None
    /\ OrZero(fuel_summary(ExampleFuel, 1).total_liters) = 20
    /\ fuel_summary(ExampleFuel, 1).km_per_liter = Some([num |-> 20, den |-> 1])

\* two fuel records, the higher odometer stored first, and a non-zero result
C6_Witness ==
    /\ IsDetail
    /\ \E i, j \in FuelOf :
        /\ i < j
        /\ fuel_entry[i].odometer > fuel_entry[j].odometer
        /\ fuel_entry[i].liters > 0
        /\ fuel_entry[j].liters > 0
    /\ response.km_per_liter # None
    /\ response.km_per_liter[1].num > 0

\* C7: without service and fuel records every total is 0 and the efficiency
\* is NULL
C7_EmptyHistories ==
    (IsDetail /\ FuelOf = {} /\ ServiceOf = {}) =>
        /\ response.service_count = 0
        /\ response.total_service_expense = 0
        /\ response.total_fuel_cost = 0
        /\ response.total_liters = 0
        /\ response.km_per_liter = None

\* the vehicle has no records while another vehicle has costs and litres
C7_Witness ==
    /\ IsDetail
    /\ FuelOf = {}
    /\ ServiceOf = {}
    /\ \E i \in DOMAIN service_event : service_event[i].total_cost = Some(1)
    /\ \E i \in DOMAIN fuel_entry :
          fuel_entry[i].liters > 0 /\ fuel_entry[i].total_cost = Some(1)
    /\ response.km_per_liter = None

\* C8 as claimed: with exactly one fuel record the efficiency is 0, not NULL
C8_OneRecordIsZero ==
    (IsDetail /\ Cardinality(FuelOf) = 1) =>
        response.km_per_liter = Some([num |-> 0, den |-> 1])

\* C8 amended: with exactly one fuel record the efficiency is 0 when the
\* record's litres are > 0 and NULL when they are 0
C8_OneRecordZeroOrNull ==
    (IsDetail /\ Cardinality(FuelOf) = 1) =>
        \A i \in FuelOf :
            /\ fuel_entry[i].liters > 0 =>
                  response.km_per_liter = Some([num |-> 0, den |-> 1])
            /\ fuel_entry[i].liters = 0 => response.km_per_liter = None

\* one fuel record with litres and a non-zero odometer
C8_Witness ==
    /\ IsDetail
    /\ Cardinality(FuelOf) = 1
    /\ \E i \in FuelOf : fuel_entry[i].liters > 0 /\ fuel_entry[i].odometer > 0
    /\ response.km_per_liter = Some([num |-> 0, den |-> 1])

\* the latest matching records of every rule agree on the odometer
UniqueLatest ==
    \A k \in 1..Len(rules) : \A i, j \in LatestOf(k) :
        service_event[i].odometer_at_service
            = service_event[j].odometer_at_service

RuleLists ==
    UNION {{[i \in 1..n |-> rules[f[i]]] :
               f \in {g \in [1..n -> 1..Len(rules)] :
                        \A a, b \in 1..n : a # b => g[a] # g[b]}} :
           n \in 0..Len(rules)}

\* C10: the page carries one prediction per rule, in rule order, each being
\* what predict_next_service returns for that rule alone, and the same holds
\* of the loop over every other list of the rules; the default list is
\* Oil Change (5000, 6), Brake Pads (30000, 24), Wipers (20000, 18)
C10_OnePredictionPerRule ==
    IsDetail =>
        /\ rules = << <<"Oil Change", 5000, 6>>, <<"Brake Pads", 30000, 24>>,
                      <<"Wipers", 20000, 18>> >>
        /\ Len(response.service_predictions) = Len(rules)
        /\ \A k \in 1..Len(rules) :
            /\ response.service_predictions[k].service_type = rules[k][1]
            /\ response.service_predictions[k] \in PredictAlone(service_event, k)
        /\ \A rl \in RuleLists :
            \A ev \in BatchEventChoices(service_event, response.vehicle.id, rl) :
                LET out == ForRules(response.vehicle, rl, ev, request_date, <<>>)
                IN  /\ Len(out) = Len(rl)
                    /\ \A k \in 1..Len(rl) :
                          out[k] = predict_next_service(response.vehicle,
                                      rl[k][1], rl[k][2], rl[k][3], ev[k],
                                      request_date)

\* two rules with history and different anchors, one rule without
C10_Witness ==
    /\ IsDetail
    /\ HistoryOf(1) # {}
    /\ HistoryOf(2) # {}
    /\ HistoryOf(3) = {}
    /\ response.service_predictions[1].last_date
          # response.service_predictions[2].last_date
    /\ response.service_predictions[1].last_odo
          # response.service_predictions[2].last_odo
    /\ response.service_predictions[3].service_type = "Wipers"


\* ------------------------------------------------ direct calls with any rule
\* rules as a caller may pass them: well-formed, or with an interval <= 0
RuleInputs ==
    {<<"Oil Change", km, months>> : km \in {-5000, 5000}, months \in {0, 6}}

PredictCall == \E v \in VehicleIds, r \in RuleInputs : predict_call(v, r)

PredictAddService ==
    \E v \in VehicleIds, d \in Dates :
        add_service(v, "POST", d, Some(1), "Oil Change", None)

PredictAddFuel ==
    \E v \in VehicleIds : add_fuel(v, "POST", Some(1), Some(1), Some(1), None)

NextPredict ==
    \/ Register
    \/ AddVehicle
    \/ PredictAddService
    \/ PredictAddFuel
    \/ PredictCall
    \/ VehicleDetail
    \/ Tick

SpecPredict == Init /\ [][NextPredict]_vars

\* the last step was a direct call of predict_next_service
ReturnOf(r) == r.status = 0 /\ "call" \in DOMAIN r

IsReturn == ReturnOf(response)

\* C11: a rule with a distance or months interval <= 0 is reported as an
\* error: the call returns no prediction computed from it
C11_MalformedRuleIsRejected ==
    (IsReturn /\ (response.rule[2] <= 0 \/ response.rule[3] <= 0)) =>
        response.value = None


\* -------------------------------------------------- tables as they may be stored
\* total_cost is nullable in both tables (models.py), and no handler writes a
\* NULL there: a table holding one was filled by another writer to the
\* database.  The other columns are NOT NULL.
CostCells == Field(0..MaxCost)

StoredServiceEvents ==
    UNION {{[i \in 1..n |->
                [id |-> i, vehicle_id |-> f[i][1], service_date |-> 1,
                 odometer_at_service |-> 1, service_type |-> "Oil Change",
                 total_cost |-> f[i][2]]] :
               f \in [1..n -> VehicleIds \X CostCells]} :
           n \in 0..MaxService}

StoredFuelEntries ==
    UNION {{[i \in 1..n |->
                [id |-> i, vehicle_id |-> f[i][1], odometer |-> i,
                 liters |-> f[i][2], total_cost |-> f[i][3]]] :
               f \in [1..n -> VehicleIds \X (0..MaxLiters) \X CostCells]} :
           n \in 0..MaxFuel}

\* one registered owner, logged in, with MaxVehicles vehicles in their group
InitStored ==
    /\ user = <<[id |-> 1, email |-> "asha@example.com", name |-> "Asha",
                 password_hash |-> generate_password_hash("secret")]>>
    /\ owner_group = <<[id |-> 1, group_name |-> <<"Asha", "'s Garage">>]>>
    /\ owner_group_user = <<[id |-> 1, group_id |-> 1, user_id |-> 1]>>
    /\ vehicle = [v \in VehicleIds |->
                    [id |-> v, group_id |-> 1, current_odometer |-> 0]]
    /\ service_event \in StoredServiceEvents
    /\ fuel_entry \in StoredFuelEntries
    /\ current_user = 1
    /\ today = 1
    /\ request_date = 1
    /\ response = [status |-> 0]

NextStored == VehicleDetail

SpecStored == InitStored /\ [][NextStored]_vars

RECURSIVE PresentCost(_, _)
PresentCost(table, S) ==
    IF S = {} THEN 0
    ELSE LET i == CHOOSE x \in S : TRUE
         IN  (IF table[i].total_cost = None THEN 0 ELSE table[i].total_cost[1])
               + PresentCost(table, S \ {i})

\* C12: each cost total is the sum of the costs that are present over the
\* vehicle's records, a record without a cost adding 0; total_liters is the
\* sum of the litres; service_count counts every service record
C12_MissingCostCountsAsZero ==
    IsDetail =>
        /\ response.service_count = Cardinality(ServiceOf)
        /\ response.total_service_expense = PresentCost(service_event, ServiceOf)
        /\ response.total_fuel_cost = PresentCost(fuel_entry, FuelOf)
        /\ response.total_liters = TotalLiters(FuelOf)

\* service and fuel records without a cost beside records with one
C12_Witness ==
    /\ IsDetail
    /\ \E i, j \in ServiceOf :
          /\ service_event[i].total_cost = None
          /\ service_event[j].total_cost = Some(1)
    /\ \E i, j \in FuelOf :
          /\ fuel_entry[i].total_cost = None
          /\ fuel_entry[j].total_cost = Some(1)
          /\ fuel_entry[i].liters > 0
    /\ response.service_count >= 2
    /\ response.total_service_expense >= 1
    /\ response.total_fuel_cost >= 1


\* C13: a step that returns a prediction (one rule) or the page (the batch
\* and the summary) leaves every table as it was: no vehicle, service or fuel
\* record is changed, created or deleted
C13_ReadOnly ==
    [][(DetailOf(response') \/ ReturnOf(response')) => tables' = tables]_vars

\* a page for a vehicle with service and fuel records whose anchor odometer
\* is not the vehicle's current odometer, which is still the stored one
C13_Witness ==
    /\ IsDetail
    /\ FuelOf # {}
    /\ HistoryOf(1) # {}
    /\ response.service_predictions[1].last_odo
          # response.vehicle.current_odometer
    /\ vehicle[response.vehicle.id] = response.vehicle


\* C14: when several matching records share the latest service date and
\* differ in odometer, the anchor is fixed by a defined tie-break, so that
\* the stored records leave one possible prediction for each rule of a page
C14_TieBreakIsDefined ==
    IsDetail =>
        \A k \in 1..Len(rules) :
            Cardinality(PredictAlone(service_event, k)) = 1


\* --------------------------------------------------- several users, one admin
\* two people register, the admin is created by /create-admin-user; each logs
\* in with the right password or a wrong one; records have one fixed content
Accounts ==
    {<<"Asha", "asha@example.com", "secret">>,
     <<"Budi", "budi@example.com", "secret">>}

Logins ==
    {<<a[2], a[3]>> : a \in Accounts}
        \cup {<<ADMIN_EMAIL, "Admin123!">>, <<"asha@example.com", "guess">>}

AccessRegister == \E a \in Accounts : register("POST", a[1], a[2], a[3])

Login == \E l \in Logins : login("POST", l[1], l[2])

Logout == logout

CreateAdminUser == create_admin_user

AccessAddVehicle == add_vehicle("POST", Some(1))

AccessAddService ==
    \E v \in VehicleIds : add_service(v, "POST", 1, Some(1), "Oil Change", None)

AccessAddFuel ==
    \E v \in VehicleIds : add_fuel(v, "POST", Some(1), Some(1), Some(1), None)

NextAccess ==
    \/ AccessRegister
    \/ Login
    \/ Logout
    \/ CreateAdminUser
    \/ AccessAddVehicle
    \/ AccessAddService
    \/ AccessAddFuel
    \/ VehicleDetail

SpecAccess == Init /\ [][NextAccess]_vars

\* user u is logged in and is not the admin
NonAdmin(u) == u # 0 /\ user[u].email # ADMIN_EMAIL

\* the owner group of vehicle vid has an OwnerGroupUser link to user u
Linked(u, vid) ==
    \E v \in DOMAIN vehicle, l \in DOMAIN owner_group_user :
        /\ vehicle[v].id = vid
        /\ owner_group_user[l].group_id = vehicle[v].group_id
        /\ owner_group_user[l].user_id = u

\* C15: for a logged-in user who is not the admin the lookup finds a vehicle
\* only if the vehicle's owner group is linked to the user; a request of such
\* a user renders a page only for a linked vehicle, appends a service or fuel
\* record only to a linked vehicle, and a not-found request writes nothing
C15_OnlyLinkedVehicles ==
    /\ [](NonAdmin(current_user) =>
            \A v \in DOMAIN vehicle :
                get_vehicle_for_current_user(vehicle[v].id) # None
                    => Linked(current_user, vehicle[v].id))
    /\ [][NonAdmin(current_user) =>
            /\ DetailOf(response')
                  => Linked(current_user, response'.vehicle.id)
            /\ service_event' # service_event
                  => /\ Len(service_event') = Len(service_event) + 1
                     /\ Linked(current_user,
                               service_event'[Len(service_event')].vehicle_id)
            /\ fuel_entry' # fuel_entry
                  => /\ Len(fuel_entry') = Len(fuel_entry) + 1
                     /\ Linked(current_user,
                               fuel_entry'[Len(fuel_entry')].vehicle_id)
            /\ response'.status = 404 => tables' = tables]_vars

\* a user who is not the admin, with service and fuel records on a vehicle of
\* their own group, has just been refused a vehicle of another user's group
\* that has a record too
C15_Witness ==
    /\ NonAdmin(current_user)
    /\ response = NotFound
    /\ \E v \in DOMAIN vehicle :
          /\ Linked(current_user, vehicle[v].id)
          /\ \E i \in DOMAIN service_event :
                service_event[i].vehicle_id = vehicle[v].id
          /\ \E i \in DOMAIN fuel_entry :
                fuel_entry[i].vehicle_id = vehicle[v].id
    /\ \E w \in DOMAIN vehicle :
          /\ ~Linked(current_user, vehicle[w].id)
          /\ get_vehicle_for_current_user(vehicle[w].id) = None
          /\ \E i \in DOMAIN service_event :
                service_event[i].vehicle_id = vehicle[w].id

====
